---- MODULE Spec2Model ----
(***************************************************************************)
(* Model of topologic::render::wrapper (include/topologic/render.h): the   *)
(* adapter between one geometric model (libefgy) and the SVG and OpenGL    *)
(* renderers kept in the shared topologic::state object.                   *)
(*                                                                         *)
(* Every method of the wrapper is one action.  The calls a method makes    *)
(* into libefgy, its assignments and its writes to streams are recorded,   *)
(* in program order, in the variable events, so that statements about the  *)
(* order of effects inside one call are state predicates.                  *)
(*                                                                         *)
(* Numbers of type Q in [0,1] (colour channels) are kept in tenths.        *)
(***************************************************************************)
EXTENDS Integers, Sequences, FiniteSets, TLC

VARIABLES
    d,          \* template parameter d: model depth
    rd,         \* template parameter rd: render depth
    modelId,    \* modelType::id(), a 0-terminated string, as its characters
    gState,     \* the shared topologic::state (wrapper::gState, by reference)
    pParameter, \* the caller's parameter object of the 3-argument constructor
    object,     \* wrapper::object, the model instance
    events,     \* effects of the last step, in program order
    rv,         \* value returned by the last call
    last,       \* the last step: which method, with which arguments
    calcCount,  \* number of calculateObject() invocations so far
    renderCalls,\* number of svg() and opengl() calls so far
    steps       \* number of steps taken so far

\* steps comes first: it differs between the two states of every step
vars == <<steps, d, rd, modelId, gState, pParameter, object, events, rv, last,
          calcCount, renderCalls>>

(***************************************************************************)
(* Bounds of the model.                                                    *)
(***************************************************************************)
MaxSteps == 4       \* steps (calls and environment changes) per behaviour
MaxParam == 2       \* parameter sets are numbered 1..MaxParam
MaxDepth == 11      \* depths 1..MaxDepth (two-digit depths included)
MaxQueries == 2     \* metadata queries are among the first MaxQueries steps

Params == 1..MaxParam
Depths == 1..MaxDepth

(***************************************************************************)
(* Values of the shared state.                                             *)
(***************************************************************************)
Colour(r, g, b, a) == [red |-> r, green |-> g, blue |-> b, alpha |-> a]

\* channels in tenths: transparent black, translucent orange, opaque white
Colours == { Colour(0, 0, 0, 0), Colour(10, 5, 0, 5), Colour(10, 10, 10, 10) }

Sizes == {3, 4}

Ids == { <<"c", "u", "b", "e">>,
         <<"k", "l", "e", "i", "n", "-", "b", "a", "g", "e", "l">> }

NoValue == "void"

Ev(kind, what, arg) == [e |-> kind, f |-> what, arg |-> arg]

(***************************************************************************)
(* Dimension labels (render.h:55).  A C string: 52 characters and the      *)
(* terminating NUL; C indices start at 0.                                  *)
(***************************************************************************)
NUL == "NUL"

\* the table with one label ("w") lost
cartesianDimensions_short ==
    << "x", "y", "z", "v", "u", "t", "s", "r", "q", "p", "o", "n",
       "m", "l", "k", "j", "i", "h", "g", "f", "e", "d", "c", "b", "a",
       "Z", "Y", "X", "W", "V", "U", "T", "S", "R", "Q", "P", "O", "N",
       "M", "L", "K", "J", "I", "H", "G", "F", "E", "D", "C", "B", "A",
       NUL >>

cartesianDimensions ==
    << "x", "y", "z", "w", "v", "u", "t", "s", "r", "q", "p", "o", "n",
       "m", "l", "k", "j", "i", "h", "g", "f", "e", "d", "c", "b", "a",
       "Z", "Y", "X", "W", "V", "U", "T", "S", "R", "Q", "P", "O", "N",
       "M", "L", "K", "J", "I", "H", "G", "F", "E", "D", "C", "B", "A",
       NUL >>

\* cartesianDimensions[i] in C
Label(i) == cartesianDimensions[i + 1]

\* sizeof(cartesianDimensions) and strlen(cartesianDimensions)
TableSize == Len(cartesianDimensions)
TableLength ==
    CHOOSE n \in 0..(TableSize - 1) :
        /\ Label(n) = NUL
        /\ \A i \in 0..(n - 1) : Label(i) # NUL

(***************************************************************************)
(* Metadata queries (render.h:267-291).                                    *)
(***************************************************************************)
Digits == << "0", "1", "2", "3", "4", "5", "6", "7", "8", "9" >>

\* operator<< (std::ostream &, unsigned int): decimal digits, no padding
RECURSIVE ToDecimal(_)
ToDecimal(n) ==
    IF n < 10 THEN << Digits[n + 1] >>
    ELSE ToDecimal(n \div 10) \o << Digits[(n % 10) + 1] >>

depth == d

\* renderDepth() that answers with the model depth
renderDepth_modelDepth == d

renderDepth == rd

id == modelId

\* name() that formats the render depth
name_renderDepth == ToDecimal(renderDepth) \o << "-" >> \o id

name == ToDecimal(depth) \o << "-" >> \o id

(***************************************************************************)
(* libefgy and topologic::state, as far as the wrapper relies on them.     *)
(***************************************************************************)
\* gState.updateMatrix(): projection matrices for the current viewport
gStateUpdateMatrix(g) ==
    [g EXCEPT !.matrix = [width |-> g.width, height |-> g.height]]

\* the parameter object that the model refers to
Deref(obj, g, pp) ==
    IF obj.parameter = "gState.parameter" THEN g.parameter ELSE pp

\* object.calculateObject(): derive the geometry from the parameters
calculateObject(obj, g, pp) ==
    [obj EXCEPT !.geometry = << "geometry", Deref(obj, g, pp) >>]

\* gState.opengl.frameEnd(): the submitted geometry is compiled
openglFrameEnd(g) == [g EXCEPT !.opengl.prepared = TRUE]

(***************************************************************************)
(* The methods of the wrapper, as functions of the state they are called   *)
(* in.  Each yields the shared state and the model after the call, the     *)
(* effects of the call in program order and the value returned.            *)
(***************************************************************************)
Rgba(c) == << c.red, c.green, c.blue, c.alpha >>

\* update() that forgets to invalidate the compiled OpenGL geometry
updateCall_keepsPrepared(g, obj, pp) ==
    [ g   |-> g,
      obj |-> calculateObject(obj, g, pp),
      ev  |-> << Ev("call", "object.calculateObject", NoValue) >>,
      rv  |-> NoValue ]

\* update() that invalidates the OpenGL geometry but recomputes nothing
updateCall_noRecompute(g, obj, pp) ==
    [ g   |-> [g EXCEPT !.opengl.prepared = FALSE],
      obj |-> obj,
      ev  |-> << Ev("assign", "gState.opengl.prepared", FALSE) >>,
      rv  |-> NoValue ]

\* render.h:394-400
updateCall(g, obj, pp) ==
    [ g   |-> [g EXCEPT !.opengl.prepared = FALSE],
      obj |-> calculateObject(obj, g, pp),
      ev  |-> << Ev("assign", "gState.opengl.prepared", FALSE),
                 Ev("call", "object.calculateObject", NoValue) >>,
      rv  |-> NoValue ]

\* a constructor that leaves the geometry to the first render call
wrapperCall_noUpdate(form, pState, pp) ==
    [ g   |-> pState,
      obj |-> [ parameter |-> IF form = 1 THEN "gState.parameter"
                                          ELSE "pParameter",
                geometry  |-> << >> ],
      ev  |-> << >>,
      rv  |-> NoValue ]

\* render.h:241-246 (form 1) and render.h:258-265 (form 2): the member
\* initialisers bind gState and construct the model, the body calls update()
wrapperCall(form, pState, pp) ==
    updateCall(pState,
               [ parameter |-> IF form = 1 THEN "gState.parameter"
                                           ELSE "pParameter",
                 geometry  |-> << >> ],
               pp)

\* svg() that refreshes the matrices for the real viewport, as opengl() does
svgViewport_realViewport(g, updateMatrix) ==
    IF updateMatrix
    THEN [ g  |-> gStateUpdateMatrix(g),
           ev |-> << Ev("call", "gState.updateMatrix", NoValue) >> ]
    ELSE [ g |-> g, ev |-> << >> ]

\* render.h:302-307
svgViewport(g, updateMatrix) ==
    IF updateMatrix
    THEN [ g  |-> gStateUpdateMatrix([g EXCEPT !.width = 3, !.height = 3]),
           ev |-> << Ev("assign", "gState.width", 3),
                     Ev("assign", "gState.height", 3),
                     Ev("call", "gState.updateMatrix", NoValue) >> ]
    ELSE [ g |-> g, ev |-> << >> ]

\* render.h:311-318: declaration, <svg>, <title>, <metadata> and state dump
svgHeader(g, nm) ==
    << Ev("output", "<?xml?><svg><title>", nm),
       Ev("output", "</title><metadata>", NoValue),
       Ev("output", "xml::tag gState", NoValue) >>

\* one rgba(r%,g%,b%,a) of the style block: double(channel)*100. and alpha
CssRgba(c) ==
    [ red   |-> (c.red * 100) \div 10,
      green |-> (c.green * 100) \div 10,
      blue  |-> (c.blue * 100) \div 10,
      alpha |-> c.alpha ]

\* a style block from the colours seen at construction, cached since
svgStyle_cached(g) ==
    << Ev("output", "</metadata><style>",
          [ background |-> CssRgba(Colour(0, 0, 0, 0)),
            stroke     |-> CssRgba(Colour(10, 10, 10, 10)),
            fill       |-> CssRgba(g.surface) ]) >>

\* render.h:319-323
svgStyle(g) ==
    << Ev("output", "</metadata><style>",
          [ background |-> CssRgba(g.background),
            stroke     |-> CssRgba(g.wireframe),
            fill       |-> CssRgba(g.surface) ]) >>

\* svg() that tests the surface opacity with >= instead of >
svgGeometry_always(g, obj) ==
    IF g.surface.alpha >= 0
    THEN << Ev("render", "gState.svg", obj.geometry) >>
    ELSE << >>

\* render.h:324-327
svgGeometry(g, obj) ==
    IF g.surface.alpha > 0
    THEN << Ev("render", "gState.svg", obj.geometry) >>
    ELSE << >>

\* svg() that computes the geometry itself before it draws
svgCall_recomputes(g, obj, nm, updateMatrix) ==
    LET vp == svgViewport(g, updateMatrix)
        ob == calculateObject(obj, vp.g, 1)
    IN  [ g   |-> vp.g,
          obj |-> ob,
          ev  |-> vp.ev
                  \o << Ev("call", "object.calculateObject", NoValue) >>
                  \o << Ev("call", "gState.svg.frameStart", NoValue) >>
                  \o svgHeader(vp.g, nm)
                  \o svgStyle(vp.g)
                  \o svgGeometry(vp.g, ob)
                  \o << Ev("output", "</svg>\n", NoValue) >>
                  \o << Ev("call", "gState.svg.frameEnd", NoValue) >>,
          rv  |-> TRUE ]

\* render.h:299-333
svgCall(g, obj, nm, updateMatrix) ==
    LET vp == svgViewport(g, updateMatrix)
    IN  [ g   |-> vp.g,
          obj |-> obj,
          ev  |-> vp.ev
                  \o << Ev("call", "gState.svg.frameStart", NoValue) >>
                  \o svgHeader(vp.g, nm)
                  \o svgStyle(vp.g)
                  \o svgGeometry(vp.g, obj)
                  \o << Ev("output", "</svg>\n", NoValue) >>
                  \o << Ev("call", "gState.svg.frameEnd", NoValue) >>,
          rv  |-> TRUE ]

\* json() that reports failure
jsonCall_false(g, obj) ==
    [ g   |-> g,
      obj |-> obj,
      ev  |-> << Ev("output", "{", NoValue),
                 Ev("output", "json::tag gState", NoValue),
                 Ev("output", "}", NoValue) >>,
      rv  |-> FALSE ]

\* render.h:335-343
jsonCall(g, obj) ==
    [ g   |-> g,
      obj |-> obj,
      ev  |-> << Ev("output", "{", NoValue),
                 Ev("output", "json::tag gState", NoValue),
                 Ev("output", "}", NoValue) >>,
      rv  |-> TRUE ]

\* opengl() that forces the 3x3 viewport of svg()
openglMatrix_fixedViewport(g, updateMatrix) ==
    IF updateMatrix
    THEN [ g  |-> gStateUpdateMatrix([g EXCEPT !.width = 3, !.height = 3]),
           ev |-> << Ev("assign", "gState.width", 3),
                     Ev("assign", "gState.height", 3),
                     Ev("call", "gState.updateMatrix", NoValue) >> ]
    ELSE [ g |-> g, ev |-> << >> ]

\* render.h:348-351
openglMatrix(g, updateMatrix) ==
    IF updateMatrix
    THEN [ g  |-> gStateUpdateMatrix(g),
           ev |-> << Ev("call", "gState.updateMatrix", NoValue) >> ]
    ELSE [ g |-> g, ev |-> << >> ]

\* opengl() that hands the renderer width and height the wrong way round
openglCopy_swapped(g) ==
    [ g  |-> [g EXCEPT !.opengl.fractalFlameColouring = g.fractalFlameColouring,
                       !.opengl.width = g.height,
                       !.opengl.height = g.width],
      ev |-> << Ev("assign", "gState.opengl.fractalFlameColouring",
                   g.fractalFlameColouring),
                Ev("assign", "gState.opengl.width", g.height),
                Ev("assign", "gState.opengl.height", g.width) >> ]

\* render.h:353-355
openglCopy(g) ==
    [ g  |-> [g EXCEPT !.opengl.fractalFlameColouring = g.fractalFlameColouring,
                       !.opengl.width = g.width,
                       !.opengl.height = g.height],
      ev |-> << Ev("assign", "gState.opengl.fractalFlameColouring",
                   g.fractalFlameColouring),
                Ev("assign", "gState.opengl.width", g.width),
                Ev("assign", "gState.opengl.height", g.height) >> ]

\* opengl() that sets the clear colour in fractal-flame mode as well
openglClear_always(g) ==
    << Ev("call", "glClearColor", Rgba(g.background)) >>

\* render.h:357-362
openglClear(g) ==
    IF ~g.fractalFlameColouring
    THEN << Ev("call", "glClearColor", Rgba(g.background)) >>
    ELSE << >>

\* render.h:366-381: setColour(r, g, b, a, wireframe)
openglColours(g) ==
    IF g.fractalFlameColouring
    THEN << Ev("call", "gState.opengl.setColour", << 0, 0, 0, 5, TRUE >>),
            Ev("call", "gState.opengl.setColour", << 0, 0, 0, 8, FALSE >>) >>
    ELSE << Ev("call", "gState.opengl.setColour",
               Rgba(g.wireframe) \o << TRUE >>),
            Ev("call", "gState.opengl.setColour",
               Rgba(g.surface) \o << FALSE >>) >>

\* opengl() that submits the geometry on every call
openglSubmit_always(g, obj) ==
    << Ev("render", "gState.opengl", obj.geometry) >>

\* render.h:383-386
openglSubmit(g, obj) ==
    IF ~g.opengl.prepared
    THEN << Ev("render", "gState.opengl", obj.geometry) >>
    ELSE << >>

\* opengl() that returns with its frame still open
openglCall_frameOpen(g, obj, updateMatrix) ==
    LET mx == openglMatrix(g, updateMatrix)
        cp == openglCopy(mx.g)
    IN  [ g   |-> openglFrameEnd(cp.g),
          obj |-> obj,
          ev  |-> mx.ev
                  \o cp.ev
                  \o openglClear(cp.g)
                  \o << Ev("call", "gState.opengl.frameStart", NoValue) >>
                  \o openglColours(cp.g)
                  \o openglSubmit(cp.g, obj),
          rv  |-> TRUE ]

\* opengl() that recomputes the model whenever it has to submit the geometry
openglCall_recomputes(g, obj, updateMatrix) ==
    LET mx == openglMatrix(g, updateMatrix)
        cp == openglCopy(mx.g)
        re == ~cp.g.opengl.prepared
    IN  [ g   |-> openglFrameEnd(cp.g),
          obj |-> IF re THEN calculateObject(obj, cp.g, 1) ELSE obj,
          ev  |-> mx.ev
                  \o cp.ev
                  \o openglClear(cp.g)
                  \o << Ev("call", "gState.opengl.frameStart", NoValue) >>
                  \o openglColours(cp.g)
                  \o (IF re
                      THEN << Ev("call", "object.calculateObject", NoValue) >>
                      ELSE << >>)
                  \o openglSubmit(cp.g, obj)
                  \o << Ev("call", "gState.opengl.frameEnd", NoValue) >>,
          rv  |-> TRUE ]

\* render.h:346-391
openglCall(g, obj, updateMatrix) ==
    LET mx == openglMatrix(g, updateMatrix)
        cp == openglCopy(mx.g)
    IN  [ g   |-> openglFrameEnd(cp.g),
          obj |-> obj,
          ev  |-> mx.ev
                  \o cp.ev
                  \o openglClear(cp.g)
                  \o << Ev("call", "gState.opengl.frameStart", NoValue) >>
                  \o openglColours(cp.g)
                  \o openglSubmit(cp.g, obj)
                  \o << Ev("call", "gState.opengl.frameEnd", NoValue) >>,
          rv  |-> TRUE ]

\* number of calculateObject() invocations among the effects ev
IsCalc(ev) == ev.e = "call" /\ ev.f = "object.calculateObject"
CalcIn(evs) == Len(SelectSeq(evs, IsCalc))

(***************************************************************************)
(* The state machine.  Init is the state right after the constructor has   *)
(* run on a shared state that the application set up before.               *)
(***************************************************************************)
\* a topologic::state as the application may hand it to the constructor
StateBefore(w, h, bg, wf, sf, ffc, p, prep) ==
    [ width  |-> w,
      height |-> h,
      matrix |-> [width |-> w, height |-> h],
      background |-> bg,
      wireframe  |-> wf,
      surface    |-> sf,
      fractalFlameColouring |-> ffc,
      parameter  |-> p,
      opengl |-> [ prepared |-> prep,
                   fractalFlameColouring |-> FALSE,
                   width  |-> 0,
                   height |-> 0,
                   lost   |-> 0 ] ]   \* times the compiled geometry was lost

Constructed(form, pState, pp) ==
    LET r == wrapperCall(form, pState, pp)
    IN  /\ gState = r.g
        /\ object = r.obj
        /\ events = r.ev
        /\ rv = r.rv
        /\ calcCount = CalcIn(r.ev)
        /\ renderCalls = 0
        /\ last = [op |-> "wrapper", arg |-> form]
        /\ steps = 0

Init ==
    /\ d \in {3, 4}
    /\ rd = 4
    /\ modelId = << "c", "u", "b", "e" >>
    /\ \E form \in {1, 2}, p \in Params, prep \in BOOLEAN,
          ffc \in BOOLEAN, sf \in Colours :
          /\ pParameter = IF form = 1 THEN 0 ELSE p
          /\ Constructed(form,
                         StateBefore(4, 4, Colour(0, 0, 0, 0),
                                     Colour(10, 10, 10, 10), sf, ffc, 1, prep),
                         pParameter)

RenderOps == {"svg", "opengl"}

Returned(r, op, arg) ==
    /\ steps < MaxSteps
    /\ gState' = r.g
    /\ object' = r.obj
    /\ events' = r.ev
    /\ rv' = r.rv
    /\ calcCount' = calcCount + CalcIn(r.ev)
    /\ renderCalls' = renderCalls + (IF op \in RenderOps THEN 1 ELSE 0)
    /\ last' = [op |-> op, arg |-> arg]
    /\ steps' = steps + 1
    /\ UNCHANGED << d, rd, modelId, pParameter >>

svg(updateMatrix) ==
    Returned(svgCall(gState, object, name, updateMatrix), "svg", updateMatrix)

json == Returned(jsonCall(gState, object), "json", NoValue)

opengl(updateMatrix) ==
    Returned(openglCall(gState, object, updateMatrix), "opengl", updateMatrix)

update == Returned(updateCall(gState, object, pParameter), "update", NoValue)

\* the application changes the shared state between calls
Changed(g) ==
    /\ steps < MaxSteps
    /\ g # gState
    /\ gState' = g
    /\ events' = << >>
    /\ rv' = NoValue
    /\ last' = [op |-> "env", arg |-> NoValue]
    /\ steps' = steps + 1
    /\ UNCHANGED << d, rd, modelId, pParameter, object, calcCount,
                    renderCalls >>

SetWidth == \E w \in Sizes : Changed([gState EXCEPT !.width = w])

SetHeight == \E h \in Sizes : Changed([gState EXCEPT !.height = h])

SetBackground == \E c \in Colours : Changed([gState EXCEPT !.background = c])

SetWireframe == \E c \in Colours : Changed([gState EXCEPT !.wireframe = c])

SetSurface == \E c \in Colours : Changed([gState EXCEPT !.surface = c])

SetFractalFlameColouring ==
    Changed([gState EXCEPT !.fractalFlameColouring = ~@])

SetParameter == \E p \in Params : Changed([gState EXCEPT !.parameter = p])

\* the caller of the 3-argument constructor changes its parameter object
SetCustomParameter ==
    /\ steps < MaxSteps
    /\ object.parameter = "pParameter"
    /\ \E p \in Params : p # pParameter /\ pParameter' = p
    /\ events' = << >>
    /\ rv' = NoValue
    /\ last' = [op |-> "env", arg |-> NoValue]
    /\ steps' = steps + 1
    /\ UNCHANGED << d, rd, modelId, gState, object, calcCount,
                    renderCalls >>

\* the OpenGL renderer drops its compiled geometry (e.g. a lost context)
ContextLoss ==
    /\ gState.opengl.prepared
    /\ Changed([gState EXCEPT !.opengl.prepared = FALSE,
                              !.opengl.lost = @ + 1])

Next ==
    \/ \E updateMatrix \in BOOLEAN : svg(updateMatrix)
    \/ json
    \/ \E updateMatrix \in BOOLEAN : opengl(updateMatrix)
    \/ update
    \/ SetWidth
    \/ SetHeight
    \/ SetBackground
    \/ SetWireframe
    \/ SetSurface
    \/ SetFractalFlameColouring
    \/ SetParameter
    \/ SetCustomParameter
    \/ ContextLoss

Spec == Init /\ [][Next]_vars

(***************************************************************************)
(* The metadata queries, over every instantiation <d, rd> of the template  *)
(* up to MaxDepth and every model id; and the label table.                 *)
(***************************************************************************)
Queried(op, arg, value) ==
    /\ steps < MaxQueries
    /\ rv' = value
    /\ events' = << >>
    /\ last' = [op |-> op, arg |-> arg]
    /\ steps' = steps + 1
    /\ UNCHANGED << d, rd, modelId, gState, pParameter, object, calcCount,
                    renderCalls >>

getDepth == Queried("depth", NoValue, depth)

getRenderDepth == Queried("renderDepth", NoValue, renderDepth)

getId == Queried("id", NoValue, id)

getName == Queried("name", NoValue, name)

getLabel == \E i \in 0..(TableSize - 1) : Queried("label", i, Label(i))

InitMeta ==
    /\ d \in Depths
    /\ rd \in Depths
    /\ modelId \in Ids
    /\ \E form \in {1, 2} :
          /\ pParameter = IF form = 1 THEN 0 ELSE 1
          /\ Constructed(form,
                         StateBefore(4, 4, Colour(0, 0, 0, 0),
                                     Colour(10, 10, 10, 10),
                                     Colour(10, 5, 0, 5), FALSE, 1, FALSE),
                         pParameter)

NextMeta ==
    \/ getDepth
    \/ getRenderDepth
    \/ getId
    \/ getName
    \/ \E updateMatrix \in BOOLEAN : svg(updateMatrix)
    \/ json
    \/ \E updateMatrix \in BOOLEAN : opengl(updateMatrix)
    \/ update

SpecMeta == InitMeta /\ [][NextMeta]_vars

\* lookups in the label table, by any adapter
NextTable == getLabel

SpecTable == Init /\ [][NextTable]_vars

(***************************************************************************)
(* Properties.                                                             *)
(***************************************************************************)
IsInvalidation(ev) == ev.e = "assign" /\ ev.f = "gState.opengl.prepared"
                      /\ ev.arg = FALSE
InvalidationsIn(evs) == Len(SelectSeq(evs, IsInvalidation))

IsDraw(ev) == ev.e = "render"
DrawsIn(evs) == Len(SelectSeq(evs, IsDraw))

\* a step of the program that is a call of op
Called(op) == steps' = steps + 1 /\ last'.op = op

\* the geometry was computed from parameters that have changed since
Stale ==
    object.geometry # << "geometry", Deref(object, gState, pParameter) >>

\* C1 as stated: the first render call after construction computes the
\* geometry exactly once (the adapter starts Dirty), every later render call
\* computes nothing.
C1_FirstRenderComputes ==
    last.op \in RenderOps =>
        CalcIn(events) = (IF renderCalls = 1 THEN 1 ELSE 0)

\* C1 amended: the constructor (either form) computes the geometry exactly
\* once, so the fresh adapter is not Dirty, and no render call, the first as
\* little as any later one, computes geometry.
C1_ConstructorComputes ==
    /\ last.op = "wrapper" =>
          /\ CalcIn(events) = 1
          /\ calcCount = 1
          /\ ~Stale
    /\ last.op \in RenderOps => CalcIn(events) = 0
    /\ (renderCalls >= 1 /\ calcCount = 1) => object.geometry # << >>

C1_Witness ==
    /\ renderCalls = 2
    /\ steps = 2
    /\ last.op = "opengl"
    /\ calcCount = 1

\* C2 as stated: opengl(updateMatrix=false) on a dirty adapter (its
\* parameters changed since the geometry was computed) recomputes once and
\* invalidates prepared once, before its first draw.
C2_OpenglRecomputesWhenDirty ==
    [][ (Stale /\ Called("opengl") /\ last'.arg = FALSE) =>
            /\ CalcIn(events') = 1
            /\ InvalidationsIn(events') = 1
      ]_vars

\* C2 amended: opengl never recomputes and never invalidates prepared;
\* update() and the constructor do both, exactly once each, so that an
\* opengl call right after them finds prepared false and submits the
\* geometry once; a second opengl call right after that recomputes nothing.
C2_UpdateThenOpengl ==
    [][ /\ (Called("update") =>
               /\ CalcIn(events') = 1
               /\ InvalidationsIn(events') = 1
               /\ DrawsIn(events') = 0
               /\ ~gState'.opengl.prepared)
        /\ (Called("opengl") =>
               /\ CalcIn(events') = 0
               /\ InvalidationsIn(events') = 0
               /\ object' = object
               /\ calcCount' = calcCount
               /\ (last.op \in {"update", "wrapper"} => DrawsIn(events') = 1))
      ]_vars

C2_Witness ==
    /\ steps = 3
    /\ calcCount = 2
    /\ renderCalls = 2
    /\ last.op = "opengl"
    /\ last.arg = FALSE
    /\ DrawsIn(events) = 0

\* C3 as stated: a render call on a dirty adapter recomputes the geometry
\* before it draws, so after every render call the geometry is up to date
\* with the parameters (dirty == false).
C3_RenderLeavesClean == last.op \in RenderOps => ~Stale

\* C3 amended: there is no dirty flag and no render call recomputes; a change
\* is signalled by update(), which recomputes exactly once and at once, and
\* every other step leaves the geometry alone, so a render call draws the
\* geometry of the last update() (or of construction), stale or not.
C3_UpdateRecomputesRenderDraws ==
    [][ /\ (Called("update") => CalcIn(events') = 1 /\ ~Stale')
        /\ ((steps' = steps + 1 /\ last'.op # "update") =>
               /\ object' = object
               /\ CalcIn(events') = 0)
        /\ (\E op \in RenderOps : Called(op)) =>
               \A i \in 1..Len(events') :
                   IsDraw(events'[i]) => events'[i].arg = object.geometry
      ]_vars

C3_Witness ==
    /\ last.op \in RenderOps
    /\ Stale
    /\ DrawsIn(events) = 1

\* C4: svg(updateMatrix = true) sets width and height of the shared state to
\* 3 and then recomputes the matrices (so they are those of a 3x3 viewport),
\* whatever width and height were; svg(updateMatrix = false) changes nothing
\* of the shared state and does not recompute the matrices.
IsMatrixUpdate(ev) == ev.e = "call" /\ ev.f = "gState.updateMatrix"

C4_SvgViewport ==
    [][ Called("svg") =>
          IF last'.arg
          THEN /\ gState'.width = 3
               /\ gState'.height = 3
               /\ gState'.matrix = [width |-> 3, height |-> 3]
               /\ SubSeq(events', 1, 3) =
                      << Ev("assign", "gState.width", 3),
                         Ev("assign", "gState.height", 3),
                         Ev("call", "gState.updateMatrix", NoValue) >>
               /\ Len(SelectSeq(events', IsMatrixUpdate)) = 1
          ELSE /\ gState' = gState
               /\ Len(SelectSeq(events', IsMatrixUpdate)) = 0
      ]_vars

\* the first call after a construction with a 4x4 viewport
C4_Witness ==
    /\ steps = 1
    /\ last.op = "svg"
    /\ last.arg = TRUE
    /\ gState.matrix = [width |-> 3, height |-> 3]
    /\ gState.width = 3
    /\ gState.height = 3

\* what an svg call wrote to its output stream, in order
IsWrite(ev) == ev.e \in {"output", "render"}
Written(evs) == SelectSeq(evs, IsWrite)

\* C5: an svg call writes the geometry, between the style block and the
\* closing tag, exactly if the surface alpha is greater than zero; with alpha
\* zero the document is the declaration, title, metadata and style block,
\* closed by </svg> and a newline, with no geometry.
C5_SvgGeometryIffVisible ==
    last.op = "svg" =>
        LET w == Written(events)
            n == Len(w)
        IN  /\ n \in {5, 6}
            /\ w[1] = Ev("output", "<?xml?><svg><title>", name)
            /\ w[2].f = "</title><metadata>"
            /\ w[3].f = "xml::tag gState"
            /\ w[4].f = "</metadata><style>"
            /\ w[n] = Ev("output", "</svg>\n", NoValue)
            /\ DrawsIn(events) = n - 5
            /\ (n = 6) <=> (gState.surface.alpha > 0)
            /\ (n = 6) => w[5] = Ev("render", "gState.svg", object.geometry)

C5_Witness ==
    /\ last.op = "svg"
    /\ gState.surface.alpha = 0
    /\ gState.wireframe.alpha > 0
    /\ Len(Written(events)) = 5
    /\ DrawsIn(events) = 0

\* C6: a render call takes colours, viewport and the fractal-flame flag from
\* the shared state as it is when the call is made: the style block and the
\* geometry condition of svg, the clear colour, the draw colours and the
\* renderer's width, height and flag of opengl are those of the shared state
\* of that moment, also when it was changed after an earlier render call.
StyleOf(g) ==
    [ background |-> << g.background.red * 10, g.background.green * 10,
                        g.background.blue * 10, g.background.alpha >>,
      stroke     |-> << g.wireframe.red * 10, g.wireframe.green * 10,
                        g.wireframe.blue * 10, g.wireframe.alpha >>,
      fill       |-> << g.surface.red * 10, g.surface.green * 10,
                        g.surface.blue * 10, g.surface.alpha >> ]

AsTuples(style) ==
    [ k \in {"background", "stroke", "fill"} |->
        << style[k].red, style[k].green, style[k].blue, style[k].alpha >> ]

CallsOf(evs, what) ==
    LET Is(ev) == ev.e = "call" /\ ev.f = what
    IN  SelectSeq(evs, Is)

C6_ConfigurationReadAtCallTime ==
    /\ last.op = "svg" =>
          /\ \E i \in 1..Len(events) :
                /\ events[i].f = "</metadata><style>"
                /\ AsTuples(events[i].arg) = StyleOf(gState)
          /\ (DrawsIn(events) = 1) <=> (gState.surface.alpha > 0)
    /\ last.op = "opengl" =>
          /\ gState.opengl.width = gState.width
          /\ gState.opengl.height = gState.height
          /\ gState.opengl.fractalFlameColouring = gState.fractalFlameColouring
          /\ LET clear == CallsOf(events, "glClearColor")
                 set   == CallsOf(events, "gState.opengl.setColour")
             IN  IF gState.fractalFlameColouring
                 THEN Len(clear) = 0
                 ELSE /\ Len(clear) = 1
                      /\ clear[1].arg = Rgba(gState.background)
                      /\ Len(set) = 2
                      /\ set[1].arg = Rgba(gState.wireframe) \o << TRUE >>
                      /\ set[2].arg = Rgba(gState.surface) \o << FALSE >>

\* render, then a new background colour, then svg
C6_Witness ==
    /\ steps = 3
    /\ renderCalls = 2
    /\ last.op = "svg"
    /\ gState.background = Colour(10, 5, 0, 5)
    /\ \E i \in 1..Len(events) :
          /\ events[i].f = "</metadata><style>"
          /\ events[i].arg.background = CssRgba(Colour(10, 5, 0, 5))

\* the number that a string of decimal digits denotes
DigitValue(c) == CHOOSE k \in 0..9 : Digits[k + 1] = c

RECURSIVE ParseDecimal(_)
ParseDecimal(str) ==
    IF str = << >> THEN 0
    ELSE 10 * ParseDecimal(SubSeq(str, 1, Len(str) - 1))
         + DigitValue(str[Len(str)])

IsDigit(c) == \E k \in 1..10 : Digits[k] = c

\* str is the decimal representation of n, a hyphen, and the string rest
IsNumberHyphenString(str, n, rest) ==
    \E k \in 2..Len(str) :
        /\ str[k] = "-"
        /\ \A j \in 1..(k - 1) : IsDigit(str[j])
        /\ (k > 2 => str[1] # "0")
        /\ ParseDecimal(SubSeq(str, 1, k - 1)) = n
        /\ SubSeq(str, k + 1, Len(str)) = rest

\* C7: in every state name() returns the decimal representation of depth(),
\* a hyphen and id(); a call changes nothing of the adapter or the shared
\* state, and a call right after another returns the same string.
C7_Name ==
    [][ Called("name") =>
            /\ IsNumberHyphenString(rv', depth, id)
            /\ UNCHANGED << d, rd, modelId, gState, pParameter, object,
                            calcCount, renderCalls >>
            /\ (last.op = "name" => rv' = rv)
      ]_vars

C7_Witness ==
    /\ steps = 2
    /\ last.op = "name"
    /\ depth = 11
    /\ renderDepth = 4
    /\ rv = << "1", "1", "-", "k", "l", "e", "i", "n", "-",
               "b", "a", "g", "e", "l" >>

C9_RenderReturnsTrue ==
    last.op \in {"svg", "opengl", "json"} => rv = TRUE

\* svg(true) with stale geometry and an invisible surface still succeeds
C9_Witness ==
    /\ last.op = "svg"
    /\ last.arg = TRUE
    /\ Stale
    /\ gState.surface.alpha = 0
    /\ rv = TRUE

Lower == << "a", "b", "c", "d", "e", "f", "g", "h", "i", "j", "k", "l", "m",
            "n", "o", "p", "q", "r", "s", "t", "u", "v", "w", "x", "y", "z" >>
Upper == << "A", "B", "C", "D", "E", "F", "G", "H", "I", "J", "K", "L", "M",
            "N", "O", "P", "Q", "R", "S", "T", "U", "V", "W", "X", "Y", "Z" >>

LabelTableInOrder ==
    /\ TableLength = 52
    /\ Label(0) = "x"
    /\ Label(3) = "w"
    /\ Label(25) = "a"
    /\ Label(26) = "Z"
    /\ Label(51) = "A"
    /\ \A i \in 0..2 : Label(i) = Lower[24 + i]
    /\ \A i \in 3..25 : Label(i) = Lower[26 - i]
    /\ \A i \in 26..51 : Label(i) = Upper[52 - i]
    /\ \A i, j \in 0..51 : i # j => Label(i) # Label(j)

\* C10: the table has exactly 52 labels: x, y, z, then w down to a, then Z
\* down to A; indices 0, 3, 25, 26 and 51 hold x, w, a, Z and A; no label
\* occurs twice.
C10_LabelTable ==
    /\ LabelTableInOrder
    /\ last.op = "label" => ((rv = NUL) <=> (last.arg = 52))

C10_Witness ==
    /\ last.op = "label"
    /\ last.arg = 26
    /\ rv = "Z"

\* C11: every recompute of the geometry comes with an invalidation of the
\* prepared flag in the same call (constructor and update()), and the flag
\* is true only while the geometry is the one that was last submitted: it
\* becomes true only in a call that submits the current geometry, and it
\* stays true only over steps that leave the geometry alone.
C11_RecomputeInvalidatesPrepared ==
    /\ [](CalcIn(events) > 0 =>
            /\ InvalidationsIn(events) = CalcIn(events)
            /\ ~gState.opengl.prepared)
    /\ [][ gState'.opengl.prepared =>
             IF gState.opengl.prepared
             THEN object' = object
             ELSE /\ DrawsIn(events') = 1
                  /\ \A i \in 1..Len(events') :
                        IsDraw(events'[i]) =>
                            events'[i].arg = object'.geometry
         ]_vars

\* opengl, which compiled the geometry, then update()
C11_Witness ==
    /\ steps = 2
    /\ renderCalls = 1
    /\ gState.opengl.width = 4
    /\ last.op = "update"
    /\ calcCount = 2
    /\ ~gState.opengl.prepared

\* frame start, the two draw colours and frame end, and nothing else
OnlyColoursAndFrame(evs) ==
    LET Is(ev) == ev.e = "call" /\ ev.f \in { "gState.opengl.frameStart",
                                              "gState.opengl.setColour",
                                              "gState.opengl.frameEnd" }
        own == SelectSeq(evs, Is)
    IN  /\ Len(own) = 4
        /\ own[1].f = "gState.opengl.frameStart"
        /\ own[2].f = "gState.opengl.setColour"
        /\ own[3].f = "gState.opengl.setColour"
        /\ own[4].f = "gState.opengl.frameEnd"
        /\ own[4] = evs[Len(evs)]

\* C12: an opengl call submits the geometry (once, the whole of it) exactly
\* if the prepared flag is false when the call is made; with the flag true
\* it submits nothing and only sets the colours and starts and ends the frame.
C12_SubmitIffNotPrepared ==
    [][ Called("opengl") =>
          /\ OnlyColoursAndFrame(events')
          /\ IF gState.opengl.prepared
             THEN DrawsIn(events') = 0
             ELSE /\ DrawsIn(events') = 1
                  /\ Ev("render", "gState.opengl", object.geometry)
                         = events'[Len(events') - 1]
      ]_vars

\* the second of two opengl calls
C12_Witness ==
    /\ steps = 2
    /\ renderCalls = 2
    /\ last.op = "opengl"
    /\ gState.opengl.prepared
    /\ DrawsIn(events) = 0

\* C13: when the renderer has dropped its compiled geometry (prepared false)
\* and the model is up to date, the next opengl call submits the geometry
\* again and recomputes nothing.
C13_ResubmitWithoutRecompute ==
    [][ (~gState.opengl.prepared /\ ~Stale /\ Called("opengl")) =>
            /\ DrawsIn(events') = 1
            /\ CalcIn(events') = 0
            /\ calcCount' = calcCount
            /\ object' = object
            /\ gState'.opengl.prepared
      ]_vars

\* opengl, the loss of the compiled geometry, opengl
C13_Witness ==
    /\ steps = 3
    /\ gState.opengl.lost = 1
    /\ last.op = "opengl"
    /\ ~Stale
    /\ calcCount = 1
    /\ DrawsIn(events) = 1

\* C14: an opengl call leaves width and height of the shared state as they
\* are, for either value of updateMatrix, and recomputes the matrices, for
\* the viewport as it is, exactly if updateMatrix is true; svg, with
\* updateMatrix true, sets both to 3.
C14_OpenglKeepsViewport ==
    [][ /\ Called("opengl") =>
              /\ gState'.width = gState.width
              /\ gState'.height = gState.height
              /\ Len(SelectSeq(events', IsMatrixUpdate))
                     = (IF last'.arg THEN 1 ELSE 0)
              /\ gState'.matrix =
                     IF last'.arg
                     THEN [width |-> gState.width, height |-> gState.height]
                     ELSE gState.matrix
        /\ (Called("svg") /\ last'.arg) =>
              /\ gState'.width = 3
              /\ gState'.height = 3
      ]_vars

\* opengl(true) on a 4x3 viewport: matrices for 4x3, viewport still 4x3
C14_Witness ==
    /\ last.op = "opengl"
    /\ last.arg = TRUE
    /\ gState.width = 4
    /\ gState.height = 3
    /\ gState.matrix = [width |-> 4, height |-> 3]

\* the place of the first effect named what among the effects evs
IndexOf(evs, what) ==
    CHOOSE i \in 1..Len(evs) :
        /\ evs[i].f = what
        /\ \A j \in 1..(i - 1) : evs[j].f # what

\* C15: every opengl call assigns the colour-mode flag, the width and the
\* height of the shared state to the OpenGL renderer before it starts the
\* frame, so that the renderer holds the shared state's values at frame start
\* and on return.
C15_BackendHoldsSharedValues ==
    last.op = "opengl" =>
        LET start == IndexOf(events, "gState.opengl.frameStart")
            Before(what, value) ==
                \E i \in 1..(start - 1) :
                    /\ events[i].e = "assign"
                    /\ events[i].f = what
                    /\ events[i].arg = value
                    /\ \A j \in 1..Len(events) :
                          (events[j].e = "assign" /\ events[j].f = what)
                              => j = i
        IN  /\ Before("gState.opengl.fractalFlameColouring",
                      gState.fractalFlameColouring)
            /\ Before("gState.opengl.width", gState.width)
            /\ Before("gState.opengl.height", gState.height)
            /\ gState.opengl.fractalFlameColouring
                   = gState.fractalFlameColouring
            /\ gState.opengl.width = gState.width
            /\ gState.opengl.height = gState.height

C15_Witness ==
    /\ last.op = "opengl"
    /\ gState.opengl.width = 3
    /\ gState.opengl.height = 4
    /\ gState.opengl.fractalFlameColouring

\* C16: the fractal-flame flag of the shared state selects the colours of an
\* opengl call.  Flag off: the clear colour is set to the background before
\* the frame starts and the draw colours are the shared wireframe and surface
\* colours.  Flag on: no clear colour is set and the draw colours are
\* (0,0,0,0.5) for the wireframe and (0,0,0,0.8) for the surface.  Either
\* way one wireframe and one surface colour are set, after the frame start
\* and before any submission of geometry.
C16_ColoursByFlameFlag ==
    last.op = "opengl" =>
        LET start  == IndexOf(events, "gState.opengl.frameStart")
            clears == { i \in 1..Len(events) : events[i].f = "glClearColor" }
            sets   == { i \in 1..Len(events) :
                            events[i].f = "gState.opengl.setColour" }
            draws  == { i \in 1..Len(events) : IsDraw(events[i]) }
            wire   == { i \in sets : events[i].arg[5] = TRUE }
            surf   == { i \in sets : events[i].arg[5] = FALSE }
            rgba(i) == SubSeq(events[i].arg, 1, 4)
        IN  /\ Cardinality(wire) = 1
            /\ Cardinality(surf) = 1
            /\ \A i \in sets : i > start /\ \A j \in draws : i < j
            /\ IF gState.fractalFlameColouring
               THEN /\ clears = { }
                    /\ \A i \in wire : rgba(i) = << 0, 0, 0, 5 >>
                    /\ \A i \in surf : rgba(i) = << 0, 0, 0, 8 >>
               ELSE /\ Cardinality(clears) = 1
                    /\ \A i \in clears :
                          /\ i < start
                          /\ events[i].arg =
                                 << gState.background.red,
                                    gState.background.green,
                                    gState.background.blue,
                                    gState.background.alpha >>
                    /\ \A i \in wire :
                          rgba(i) = << gState.wireframe.red,
                                       gState.wireframe.green,
                                       gState.wireframe.blue,
                                       gState.wireframe.alpha >>
                    /\ \A i \in surf :
                          rgba(i) = << gState.surface.red,
                                       gState.surface.green,
                                       gState.surface.blue,
                                       gState.surface.alpha >>

\* a call in fractal-flame mode that submits geometry
C16_Witness ==
    /\ last.op = "opengl"
    /\ gState.fractalFlameColouring
    /\ DrawsIn(events) = 1
    /\ \E i \in 1..Len(events) :
          /\ events[i].f = "gState.opengl.setColour"
          /\ events[i].arg = << 0, 0, 0, 8, FALSE >>

\* C17: only construction and update() compute geometry.  Either form of the
\* constructor computes it once and sets the renderer's prepared flag to
\* false, every update() computes it once and sets the flag to false, and
\* svg, json and opengl compute none, so the number of computations is one
\* more than the number of update() calls whatever was rendered.
C17_ComputedByConstructionAndUpdate ==
    /\ [](( last.op = "wrapper" =>
                /\ calcCount = 1
                /\ CalcIn(events) = 1
                /\ InvalidationsIn(events) = 1
                /\ ~gState.opengl.prepared )
          /\ ( last.op = "update" =>
                /\ CalcIn(events) = 1
                /\ InvalidationsIn(events) = 1
                /\ ~gState.opengl.prepared )
          /\ ( last.op \in {"svg", "json", "opengl"} =>
                CalcIn(events) = 0 ))
    /\ [][ calcCount' = calcCount + (IF Called("update") THEN 1 ELSE 0) ]_vars

\* two updates and two render calls: three computations
C17_Witness ==
    /\ steps = 4
    /\ renderCalls = 2
    /\ calcCount = 3
    /\ last.op = "svg"

\* C18: every svg and every opengl call makes one frame of its renderer:
\* frameStart comes before anything the call writes or draws, frameEnd comes
\* after the last of it and is the last thing the call does, and no other
\* operation starts or ends a frame.
C18_OneFramePerRenderCall ==
    LET At(what)  == { i \in 1..Len(events) : events[i].f = what }
        work      == { i \in 1..Len(events) :
                           \/ IsWrite(events[i])
                           \/ events[i].f = "gState.opengl.setColour" }
        Frame(start, end) ==
            /\ Cardinality(At(start)) = 1
            /\ At(end) = { Len(events) }
            /\ \A i \in work : \A s \in At(start) : s < i /\ i < Len(events)
        NoFrame(start, end) == At(start) = { } /\ At(end) = { }
    IN  /\ IF last.op = "svg"
           THEN /\ Frame("gState.svg.frameStart", "gState.svg.frameEnd")
                /\ \E i \in work : events[i].f = "</svg>\n"
                /\ \A i \in work : events[i].f = "</svg>\n" =>
                       i = Len(events) - 1
           ELSE NoFrame("gState.svg.frameStart", "gState.svg.frameEnd")
        /\ IF last.op = "opengl"
           THEN Frame("gState.opengl.frameStart", "gState.opengl.frameEnd")
           ELSE NoFrame("gState.opengl.frameStart", "gState.opengl.frameEnd")

\* an svg call after an opengl call, each with geometry inside its frame
C18_Witness ==
    /\ last.op = "svg"
    /\ renderCalls = 2
    /\ gState.opengl.prepared
    /\ DrawsIn(events) = 1
    /\ events[Len(events)].f = "gState.svg.frameEnd"

====
